---- MODULE Spec2Model ----
(***************************************************************************)
(* FundamentalMatrixSevenPointSolver::estimateModel                        *)
(* (include/solver_fundamental_matrix_seven_point.h) as a state machine.   *)
(*                                                                         *)
(* A double is modelled by an exact rational <<num, den>> in lowest terms  *)
(* with den > 0.  An int is a 32-bit two's-complement integer; products    *)
(* that may leave that range are carried as <<hi, lo>> limb pairs of value *)
(* hi * 2^16 + lo with 0 <= lo < 2^16.  Entries of sample_ are below 2^31  *)
(* (cv::Mat::rows is an int), where the size_t -> int conversion of line   *)
(* 49 keeps the value.                                                     *)
(*                                                                         *)
(* Eigen::JacobiSVD and Eigen::PolynomialSolver are library code: the      *)
(* decomposition returns any two distinct vectors of BasisVectors, the     *)
(* root finder the exact roots of its polynomial that lie in RootList.     *)
(* A call is made with sample_number_ >= 7: with fewer rows the loop of    *)
(* lines 47-66 writes outside the coefficient matrix.                      *)
(*                                                                         *)
(* Spec runs whole calls on one output vector; SpecCoeffs runs lines       *)
(* 93-158 from arbitrary small vectors f1, f2.                             *)
(***************************************************************************)
EXTENDS Integers, Sequences, FiniteSets, TLC

VARIABLES
    rows, cols,        \* data_.rows, data_.cols
    sample,            \* sample_: the caller's index array
    sample_number,     \* sample_number_
    models_,           \* the caller's output vector
    before,            \* models_ as it was when the current call was entered
    calls,             \* calls made so far on models_
    pc,                \* position in estimateModel
    i,                 \* loop counter of lines 47-66
    coefficients,      \* Eigen::MatrixXd coefficients(sample_number_, 9)
    offs,              \* offs[j]: the offset computed in iteration j-1
    addrs,             \* addrs[j]: the four element indices read from data_ptr
    pts,               \* pts[j]: <<x0, y0, x1, y1>> as read in iteration j-1
    sampleReads,       \* positions of sample_ read so far
    f1, f2,            \* the basis vectors (f1 after lines 90-91)
    c,                 \* double c[4]
    polynomial,        \* the vector handed to the polynomial solver
    real_roots, n,     \* real_roots and n = real_roots.size()
    k,                 \* position of the range-for of line 135
    ret                \* the value returned by the call ("none" while it runs)

vars == <<rows, cols, sample, sample_number, models_, before, calls, pc, i,
          coefficients, offs, addrs, pts, sampleReads, f1, f2, c, polynomial,
          real_roots, n, k, ret>>

----------------------------------------------------------------------------
(* Bounds of the model *)

MaxCalls == 2

MaxSampleNumber == 8

----------------------------------------------------------------------------
(* Exact rational arithmetic standing for double arithmetic *)

RECURSIVE Gcd(_, _)
Gcd(a, b) == IF b = 0 THEN a ELSE Gcd(b, a % b)

AbsInt(x) == IF x < 0 THEN -x ELSE x

Norm(num, den) ==
    LET g == Gcd(AbsInt(num), AbsInt(den))
        sg == IF den < 0 THEN -1 ELSE 1
    IN  <<(sg * num) \div g, (sg * den) \div g>>

R(x) == <<x, 1>>

Zero == R(0)

One == R(1)

RAdd(a, b) == Norm(a[1] * b[2] + b[1] * a[2], a[2] * b[2])

RSub(a, b) == Norm(a[1] * b[2] - b[1] * a[2], a[2] * b[2])

RMul(a, b) == Norm(a[1] * b[1], a[2] * b[2])

RDiv(a, b) == Norm(a[1] * b[2], a[2] * b[1])

a ++ b == RAdd(a, b)

a -- b == RSub(a, b)

a ** b == RMul(a, b)

a // b == RDiv(a, b)

\* fabs(s) > std::numeric_limits<double>::epsilon(), epsilon = 2^-52:
\* |num| / den > 2^-52  iff  |num| > floor(den / 2^52)
FabsGtEpsilonNoAbs(s) == s[1] > (s[2] \div (2^26)) \div (2^26)

FabsGtEpsilon(s) == AbsInt(s[1]) > (s[2] \div (2^26)) \div (2^26)

IntVec(v) == [j \in 1..Len(v) |-> R(v[j])]

\* v[j] with the source's 0-based index
At(v, j) == v[j + 1]

----------------------------------------------------------------------------
(* 32-bit int arithmetic of lines 49-55 *)

Limb == 2^16

\* the mathematical product cols * idx as limbs (cols < 2^15, 0 <= idx < 2^31)
WideMul(m, idx) ==
    LET lo == m * (idx % Limb)
        hi == m * (idx \div Limb)
    IN  <<hi + (lo \div Limb), lo % Limb>>

\* the low 32 bits of a limb pair, read as a signed int
Wrap32(w) ==
    LET h == w[1] % Limb
    IN  <<IF h >= Limb \div 2 THEN h - Limb ELSE h, w[2]>>

FitsInt(w) == Wrap32(w) = w

WideAdd(w, d) == <<w[1] + ((w[2] + d) \div Limb), (w[2] + d) % Limb>>

\* const int offset = cols * sample_idx: a product outside int is undefined
\* behaviour; the build either keeps the low 32 bits or indexes with the
\* full 64-bit product
OffsetOutcomes(m, idx) ==
    IF FitsInt(WideMul(m, idx))
    THEN {WideMul(m, idx)}
    ELSE {Wrap32(WideMul(m, idx)), WideMul(m, idx)}


----------------------------------------------------------------------------
(* The correspondence table behind data_ptr *)

\* the rows of the table repeat these correspondences (x0, y0, x1, y1); all
\* eight satisfy both epipolar constraints spanned by BasisVectors[1..2]
Pattern ==
    << <<-1, 0, 0, -1>>, <<0, 0, 1, -1>>, <<0, -1, 1, 0>>, <<1, 0, 0, 1>>,
       <<1, -1, 1, 0>>, <<1, 1, 0, 1>>, <<-1, 1, 0, -1>>, <<-1, -1, 0, -1>> >>

\* the element at row r, column col; columns past the fourth hold padding
Cell(r, col) ==
    IF col < 4 THEN R(Pattern[(r % Len(Pattern)) + 1][col + 1]) ELSE R(2)

\* the calls the caller makes: a table (its dimensions) and the row the
\* sample starts at
Inputs ==
    { [rows |-> 8, cols |-> 4, shift |-> 0],
      [rows |-> 8, cols |-> 4, shift |-> 1],
      [rows |-> 8, cols |-> 5, shift |-> 1],
      [rows |-> 2^30 + 1, cols |-> 5, shift |-> 0],
      [rows |-> 2^29 + 1, cols |-> 4, shift |-> 0] }

\* a sample of m valid row indices; in a large table its 7th entry is the
\* last row
SampleFor(t, m) ==
    [j \in 1..m |->
        IF j = 7 /\ t.rows > Len(Pattern)
        THEN t.rows - 1
        ELSE (j - 1 + t.shift) % Len(Pattern)]

\* row and column of the element with index w (a limb pair) of a table with
\* ncols columns
RowOf(w, ncols) ==
    (w[1] \div ncols) * Limb + (((w[1] % ncols) * Limb + w[2]) \div ncols)

ColOf(w, ncols) == ((w[1] % ncols) * Limb + w[2]) % ncols

InTable(w, nrows, ncols) ==
    /\ w[1] >= 0
    /\ (w[1] \div ncols) < Limb \div 2
    /\ RowOf(w, ncols) < nrows

\* what a read outside the table may yield
GarbageReads == { <<R(0), R(0), R(0), R(0)>>, <<R(1), R(2), R(3), R(4)>> }

\* what the rows of a freshly allocated Eigen::MatrixXd may hold
GarbageRows == { [j \in 1..9 |-> R(0)], [j \in 1..9 |-> R(j)] }

GarbageFor(off, nrows, ncols) ==
    IF \A d \in 0..3 : InTable(WideAdd(off, d), nrows, ncols)
    THEN { <<R(0), R(0), R(0), R(0)>> }
    ELSE GarbageReads

\* data_ptr[offset + d]
ReadAt(off, d, g, nrows, ncols) ==
    LET w == WideAdd(off, d)
    IN  IF InTable(w, nrows, ncols)
        THEN Cell(RowOf(w, ncols), ColOf(w, ncols))
        ELSE g[d + 1]

----------------------------------------------------------------------------
(* Pure parts of estimateModel *)

SampleSize == 7

\* lines 57-65
CoefficientRow(x0, y0, x1, y1) ==
    << x1 ** x0, x1 ** y0, x1, y1 ** x0, y1 ** y0, y1, x0, y0, One >>

\* what the decomposition may return as columns 7 and 8 of V
BasisVectors ==
    << <<-1, -1, 1, 2, 0, -1, 1, 0, -2>>, <<1, 1, 2, 1, 0, 1, -1, 0, -1>>,
       <<-1, 0, 0, 1, 1, 0, 0, 0, 1>>, <<0, 1, 1, 1, 0, 1, 0, 0, 0>> >>

VecSub(u, v) == [j \in 1..9 |-> u[j] -- v[j]]

\* lines 93-119 with the sign of the f1[3] term of c[1] flipped
CoeffsSignSlip(g1, g2) ==
    LET t0 == (At(g2, 4) ** At(g2, 8)) -- (At(g2, 5) ** At(g2, 7))
        t1 == (At(g2, 3) ** At(g2, 8)) -- (At(g2, 5) ** At(g2, 6))
        t2 == (At(g2, 3) ** At(g2, 7)) -- (At(g2, 4) ** At(g2, 6))
        u0 == (At(g1, 4) ** At(g1, 8)) -- (At(g1, 5) ** At(g1, 7))
        u1 == (At(g1, 3) ** At(g1, 8)) -- (At(g1, 5) ** At(g1, 6))
        u2 == (At(g1, 3) ** At(g1, 7)) -- (At(g1, 4) ** At(g1, 6))
    IN  << ((At(g2, 0) ** t0) -- (At(g2, 1) ** t1)) ++ (At(g2, 2) ** t2),
           ((((((((At(g1, 0) ** t0) -- (At(g1, 1) ** t1)) ++ (At(g1, 2) ** t2))
             ++ (At(g1, 3) ** ((At(g2, 1) ** At(g2, 8)) -- (At(g2, 2) ** At(g2, 7)))))
             ++ (At(g1, 4) ** ((At(g2, 0) ** At(g2, 8)) -- (At(g2, 2) ** At(g2, 6)))))
             -- (At(g1, 5) ** ((At(g2, 0) ** At(g2, 7)) -- (At(g2, 1) ** At(g2, 6)))))
             ++ (At(g1, 6) ** ((At(g2, 1) ** At(g2, 5)) -- (At(g2, 2) ** At(g2, 4)))))
             -- (At(g1, 7) ** ((At(g2, 0) ** At(g2, 5)) -- (At(g2, 2) ** At(g2, 3)))))
             ++ (At(g1, 8) ** ((At(g2, 0) ** At(g2, 4)) -- (At(g2, 1) ** At(g2, 3)))),
           ((((((((At(g2, 0) ** u0) -- (At(g2, 1) ** u1)) ++ (At(g2, 2) ** u2))
             -- (At(g2, 3) ** ((At(g1, 1) ** At(g1, 8)) -- (At(g1, 2) ** At(g1, 7)))))
             ++ (At(g2, 4) ** ((At(g1, 0) ** At(g1, 8)) -- (At(g1, 2) ** At(g1, 6)))))
             -- (At(g2, 5) ** ((At(g1, 0) ** At(g1, 7)) -- (At(g1, 1) ** At(g1, 6)))))
             ++ (At(g2, 6) ** ((At(g1, 1) ** At(g1, 5)) -- (At(g1, 2) ** At(g1, 4)))))
             -- (At(g2, 7) ** ((At(g1, 0) ** At(g1, 5)) -- (At(g1, 2) ** At(g1, 3)))))
             ++ (At(g2, 8) ** ((At(g1, 0) ** At(g1, 4)) -- (At(g1, 1) ** At(g1, 3)))),
           ((At(g1, 0) ** u0) -- (At(g1, 1) ** u1)) ++ (At(g1, 2) ** u2) >>

\* lines 93-119: c[0..3] from f1 (already f1 - f2) and f2
Coeffs(g1, g2) ==
    LET t0 == (At(g2, 4) ** At(g2, 8)) -- (At(g2, 5) ** At(g2, 7))
        t1 == (At(g2, 3) ** At(g2, 8)) -- (At(g2, 5) ** At(g2, 6))
        t2 == (At(g2, 3) ** At(g2, 7)) -- (At(g2, 4) ** At(g2, 6))
        u0 == (At(g1, 4) ** At(g1, 8)) -- (At(g1, 5) ** At(g1, 7))
        u1 == (At(g1, 3) ** At(g1, 8)) -- (At(g1, 5) ** At(g1, 6))
        u2 == (At(g1, 3) ** At(g1, 7)) -- (At(g1, 4) ** At(g1, 6))
    IN  << ((At(g2, 0) ** t0) -- (At(g2, 1) ** t1)) ++ (At(g2, 2) ** t2),
           ((((((((At(g1, 0) ** t0) -- (At(g1, 1) ** t1)) ++ (At(g1, 2) ** t2))
             -- (At(g1, 3) ** ((At(g2, 1) ** At(g2, 8)) -- (At(g2, 2) ** At(g2, 7)))))
             ++ (At(g1, 4) ** ((At(g2, 0) ** At(g2, 8)) -- (At(g2, 2) ** At(g2, 6)))))
             -- (At(g1, 5) ** ((At(g2, 0) ** At(g2, 7)) -- (At(g2, 1) ** At(g2, 6)))))
             ++ (At(g1, 6) ** ((At(g2, 1) ** At(g2, 5)) -- (At(g2, 2) ** At(g2, 4)))))
             -- (At(g1, 7) ** ((At(g2, 0) ** At(g2, 5)) -- (At(g2, 2) ** At(g2, 3)))))
             ++ (At(g1, 8) ** ((At(g2, 0) ** At(g2, 4)) -- (At(g2, 1) ** At(g2, 3)))),
           ((((((((At(g2, 0) ** u0) -- (At(g2, 1) ** u1)) ++ (At(g2, 2) ** u2))
             -- (At(g2, 3) ** ((At(g1, 1) ** At(g1, 8)) -- (At(g1, 2) ** At(g1, 7)))))
             ++ (At(g2, 4) ** ((At(g1, 0) ** At(g1, 8)) -- (At(g1, 2) ** At(g1, 6)))))
             -- (At(g2, 5) ** ((At(g1, 0) ** At(g1, 7)) -- (At(g1, 1) ** At(g1, 6)))))
             ++ (At(g2, 6) ** ((At(g1, 1) ** At(g1, 5)) -- (At(g1, 2) ** At(g1, 4)))))
             -- (At(g2, 7) ** ((At(g1, 0) ** At(g1, 5)) -- (At(g1, 2) ** At(g1, 3)))))
             ++ (At(g2, 8) ** ((At(g1, 0) ** At(g1, 4)) -- (At(g1, 1) ** At(g1, 3)))),
           ((At(g1, 0) ** u0) -- (At(g1, 1) ** u1)) ++ (At(g1, 2) ** u2) >>

\* the value at x of the polynomial with coefficient p[j + 1] of x^j
\* (the coefficient order Eigen::PolynomialSolver takes)
PolyEval(p, x) ==
    At(p, 0) ++ (x ** (At(p, 1) ++ (x ** (At(p, 2) ++ (x ** At(p, 3))))))

\* the values a reported root may take, in ascending order
RootList == << R(-1), R(0), <<1, 2>>, R(1), R(2) >>

\* psolve.realRoots(real_roots)
RealRoots(p) == SelectSeq(RootList, LAMBDA x : PolyEval(p, x) = Zero)

\* line 131 with the upper limit off by one
RootCountOkOffByOne(m) == ~(m < 1 \/ m >= 3)

\* line 131: the call goes on iff not (n < 1 || n > 3)
RootCountOk(m) == ~(m < 1 \/ m > 3)

\* a failure path that empties the output vector
ModelsOnFailCleared(m) == << >>

\* line 132: the failing return leaves models_ as it is
ModelsOnFail(m) == m

\* line 139
NormScalar(g1, g2, root) == (At(g1, 8) ** root) ++ At(g2, 8)

\* lines 144-145 without "lambda *= mu"
NormalizedPairUnscaled(root, s) == << root, One // s >>

\* lines 144-145: <<lambda, mu>> after mu = 1.0f / s; lambda *= mu
NormalizedPair(root, s) == << root ** (One // s), One // s >>

\* lines 147-153 with the last entry copied from f2 instead of set to 1.0
MakeModelLastFromBasis(g1, g2, lambda, mu) ==
    [j \in 1..9 |-> IF j = 9 THEN g2[9] ELSE (g1[j] ** lambda) ++ (g2[j] ** mu)]

\* lines 147-153: the descriptor, row-major
MakeModel(g1, g2, lambda, mu) ==
    [j \in 1..9 |-> IF j = 9 THEN One ELSE (g1[j] ** lambda) ++ (g2[j] ** mu)]

\* an insertion at the front
PushFront(m, x) == <<x>> \o m

\* line 154: models_.push_back(model)
PushBack(m, x) == Append(m, x)

----------------------------------------------------------------------------
(* estimateModel, step by step *)

NoVec == << >>

Init ==
    /\ rows = 0 /\ cols = 0
    /\ sample = << >>
    /\ sample_number = 0
    /\ models_ = << >>
    /\ before = << >>
    /\ calls = 0
    /\ pc = "idle"
    /\ i = 0
    /\ coefficients = << >>
    /\ offs = << >>
    /\ addrs = << >>
    /\ pts = << >>
    /\ sampleReads = {}
    /\ f1 = NoVec /\ f2 = NoVec
    /\ c = NoVec
    /\ polynomial = NoVec
    /\ real_roots = << >>
    /\ n = 0
    /\ k = 0
    /\ ret = "none"

\* lines 32-43: the caller enters estimateModel with a table, a sample of
\* sample_number_ valid indices and its output vector; the coefficient matrix
\* is allocated with sample_number_ rows and is not initialised
Call ==
    /\ pc \in {"idle", "done"}
    /\ calls < MaxCalls
    /\ \E t \in Inputs, m \in SampleSize..MaxSampleNumber, g \in GarbageRows :
          /\ rows' = t.rows
          /\ cols' = t.cols
          /\ sample' = SampleFor(t, m)
          /\ sample_number' = m
          /\ coefficients' = [r \in 1..m |-> g]
    /\ before' = models_
    /\ calls' = calls + 1
    /\ pc' = "assemble"
    /\ i' = 0
    /\ offs' = << >>
    /\ addrs' = << >>
    /\ pts' = << >>
    /\ sampleReads' = {}
    /\ f1' = NoVec /\ f2' = NoVec
    /\ c' = NoVec
    /\ polynomial' = NoVec
    /\ real_roots' = << >>
    /\ n' = 0
    /\ k' = 0
    /\ ret' = "none"
    /\ UNCHANGED models_

\* lines 47-66: one iteration of the assembly loop
AssembleRow ==
    /\ pc = "assemble"
    /\ i < 7
    /\ \E off \in OffsetOutcomes(cols, sample[i + 1]) :
       \E g \in GarbageFor(off, rows, cols) :
          LET x0 == ReadAt(off, 0, g, rows, cols)
              y0 == ReadAt(off, 1, g, rows, cols)
              x1 == ReadAt(off, 2, g, rows, cols)
              y1 == ReadAt(off, 3, g, rows, cols)
          IN  /\ offs' = Append(offs, off)
              /\ addrs' = Append(addrs, [d \in 1..4 |-> WideAdd(off, d - 1)])
              /\ pts' = Append(pts, <<x0, y0, x1, y1>>)
              /\ coefficients' =
                    [coefficients EXCEPT ![i + 1] = CoefficientRow(x0, y0, x1, y1)]
    /\ sampleReads' = sampleReads \cup {i}
    /\ i' = i + 1
    /\ UNCHANGED <<rows, cols, sample, sample_number, models_, before, calls, pc,
                   f1, f2, c, polynomial, real_roots, n, k, ret>>

\* lines 72-91: the decomposition yields f1 and f2, then f1 -= f2
Decompose ==
    /\ pc = "assemble"
    /\ i = 7
    /\ \E a \in 1..Len(BasisVectors), b \in 1..Len(BasisVectors) :
          /\ a # b
          /\ f2' = IntVec(BasisVectors[b])
          /\ f1' = VecSub(IntVec(BasisVectors[a]), IntVec(BasisVectors[b]))
    /\ pc' = "coeffs"
    /\ UNCHANGED <<rows, cols, sample, sample_number, models_, before, calls, i,
                   coefficients, offs, addrs, pts, sampleReads, c, polynomial,
                   real_roots, n, k, ret>>

\* lines 93-124: the cubic's coefficients, copied into the solver's vector
Coefficients ==
    /\ pc = "coeffs"
    /\ c' = Coeffs(f1, f2)
    /\ polynomial' = [j \in 1..4 |-> Coeffs(f1, f2)[j]]
    /\ pc' = "solve"
    /\ UNCHANGED <<rows, cols, sample, sample_number, models_, before, calls, i,
                   coefficients, offs, addrs, pts, sampleReads, f1, f2,
                   real_roots, n, k, ret>>

\* lines 125-132: the real roots and the gate on their number
SolveRoots ==
    /\ pc = "solve"
    /\ real_roots' = RealRoots(polynomial)
    /\ n' = Len(RealRoots(polynomial))
    /\ IF RootCountOk(Len(RealRoots(polynomial)))
       THEN /\ pc' = "roots"
            /\ k' = 1
            /\ UNCHANGED <<models_, ret>>
       ELSE /\ pc' = "done"
            /\ ret' = "false"
            /\ models_' = ModelsOnFail(models_)
            /\ UNCHANGED k
    /\ UNCHANGED <<rows, cols, sample, sample_number, before, calls, i,
                   coefficients, offs, addrs, pts, sampleReads, f1, f2, c,
                   polynomial>>

\* lines 135-156: one iteration of the loop over the roots
ProcessRoot ==
    /\ pc = "roots"
    /\ k <= Len(real_roots)
    /\ LET root == real_roots[k]
           s == NormScalar(f1, f2, root)
       IN  IF FabsGtEpsilon(s)
           THEN models_' =
                   PushBack(models_,
                            MakeModel(f1, f2, NormalizedPair(root, s)[1],
                                      NormalizedPair(root, s)[2]))
           ELSE UNCHANGED models_
    /\ k' = k + 1
    /\ UNCHANGED <<rows, cols, sample, sample_number, before, calls, pc, i,
                   coefficients, offs, addrs, pts, sampleReads, f1, f2, c,
                   polynomial, real_roots, n, ret>>

\* line 158
Return ==
    /\ pc = "roots"
    /\ k > Len(real_roots)
    /\ ret' = "true"
    /\ pc' = "done"
    /\ UNCHANGED <<rows, cols, sample, sample_number, models_, before, calls, i,
                   coefficients, offs, addrs, pts, sampleReads, f1, f2, c,
                   polynomial, real_roots, n, k>>

Next ==
    \/ Call
    \/ AssembleRow
    \/ Decompose
    \/ Coefficients
    \/ SolveRoots
    \/ ProcessRoot
    \/ Return

Spec == Init /\ [][Next]_vars

----------------------------------------------------------------------------
(* Lines 93-158 on their own, from any pair of vectors f1, f2 *)

\* the subsets of at most three of the 18 entries of f1 and f2
SmallSupports == {{a, b, d} : a \in 1..18, b \in 1..18, d \in 1..18} \cup {{}}

\* f1 and f2 with entry 1 at the positions of S and 0 elsewhere (positions
\* 10..18 are those of f2)
IndicatorPair(S) ==
    << [j \in 1..9 |-> IF j \in S THEN One ELSE Zero],
       [j \in 1..9 |-> IF (j + 9) \in S THEN One ELSE Zero] >>

\* f1 (after f1 -= f2) and f2 for two distinct vectors of BasisVectors
BasisPairs ==
    { << VecSub(IntVec(BasisVectors[a]), IntVec(BasisVectors[b])),
         IntVec(BasisVectors[b]) >> :
      a \in 1..Len(BasisVectors), b \in 1..Len(BasisVectors) }
    \ { << IntVec(<<0, 0, 0, 0, 0, 0, 0, 0, 0>>), IntVec(BasisVectors[b]) >> :
          b \in 1..Len(BasisVectors) }

\* the state after line 91, for f1 and f2 drawn from the indicator pairs and
\* the basis pairs
InitCoeffs ==
    /\ rows = 8 /\ cols = 4
    /\ sample = << >>
    /\ sample_number = 7
    /\ models_ = << >>
    /\ before = << >>
    /\ calls = 1
    /\ pc = "coeffs"
    /\ i = 7
    /\ coefficients = << >>
    /\ offs = << >>
    /\ addrs = << >>
    /\ pts = << >>
    /\ sampleReads = 0..6
    /\ \E pr \in {IndicatorPair(S) : S \in SmallSupports} \cup BasisPairs :
          f1 = pr[1] /\ f2 = pr[2]
    /\ c = NoVec
    /\ polynomial = NoVec
    /\ real_roots = << >>
    /\ n = 0
    /\ k = 0
    /\ ret = "none"

NextCoeffs ==
    \/ Coefficients
    \/ SolveRoots
    \/ ProcessRoot
    \/ Return

SpecCoeffs == InitCoeffs /\ [][NextCoeffs]_vars

----------------------------------------------------------------------------
(* Notions the properties are stated in *)

\* [x1, y1, 1] . F . [x0, y0, 1]^T for a correspondence p = <<x0, y0, x1, y1>>
\* and a row-major 3x3 matrix F
Bilinear(p, F) ==
    ((p[3] ** (((F[1] ** p[1]) ++ (F[2] ** p[2])) ++ F[3]))
     ++ (p[4] ** (((F[4] ** p[1]) ++ (F[5] ** p[2])) ++ F[6])))
     ++ (((F[7] ** p[1]) ++ (F[8] ** p[2])) ++ F[9])

RECURSIVE DotUpTo(_, _, _)
DotUpTo(u, v, j) ==
    IF j = 0 THEN Zero ELSE DotUpTo(u, v, j - 1) ++ (u[j] ** v[j])

Dot(u, v) == DotUpTo(u, v, 9)

\* the determinant of a row-major 3x3 matrix, by the rule of Sarrus
Det3(F) ==
    ((((F[1] ** F[5]) ** F[9]) ++ ((F[2] ** F[6]) ** F[7]))
       ++ ((F[3] ** F[4]) ** F[8]))
    -- ((((F[3] ** F[5]) ** F[7]) ++ ((F[2] ** F[4]) ** F[9]))
       ++ ((F[1] ** F[6]) ** F[8]))

\* x * g1 + g2
Pencil(x, g1, g2) == [j \in 1..9 |-> (x ** g1[j]) ++ g2[j]]

\* c0 + c1 x + c2 x^2 + c3 x^3
Cubic(q, x) ==
    ((q[1] ++ (q[2] ** x)) ++ (q[3] ** (x ** x))) ++ (q[4] ** ((x ** x) ** x))

\* |s| > 2^-52
AboveEpsilon(s) ==
    (IF s[1] < 0 THEN -s[1] ELSE s[1]) > (s[2] \div (2^26)) \div (2^26)

\* s = f1[8] * lambda + f2[8] for the j-th reported root
ScalarOfRoot(j) == (f1[9] ** real_roots[j]) ++ f2[9]

KeptRoots == {j \in 1..Len(real_roots) : AboveEpsilon(ScalarOfRoot(j))}

\* the positions of models_ the current call has filled
Emitted == (Len(before) + 1)..Len(models_)

\* both basis vectors are null vectors of the seven assembled rows
NullBasis ==
    \A r \in 1..7 :
        Dot(coefficients[r], f1) = Zero /\ Dot(coefficients[r], f2) = Zero

Assembled == pc \in {"coeffs", "solve", "roots", "done"}

TestLambdas == {R(-2), R(-1), R(0), <<1, 2>>, R(1), <<-1, 3>>}

----------------------------------------------------------------------------
(* Properties *)

\* C1: every candidate the call has emitted satisfies the epipolar constraint
\* exactly for each of the 7 correspondences it read, whenever both basis
\* vectors are null vectors of the coefficient rows
C1_EpipolarConstraint ==
    (pc \in {"roots", "done"} /\ NullBasis) =>
        \A m \in Emitted : \A j \in 1..7 : Bilinear(pts[j], models_[m]) = Zero

\* a null basis gave three candidates, one of them through s = -3
C1_Witness ==
    /\ pc = "done"
    /\ NullBasis
    /\ Len(models_) = Len(before) + 3
    /\ \E j \in 1..Len(real_roots) : ScalarOfRoot(j) = R(-3)

\* C2: the call returns false iff the number of reported real roots is 0 or
\* more than 3, and true for every count in 1..3, also when all are skipped
C2_FalseIffRootCountOutOfRange ==
    pc = "done" =>
        /\ ret \in {"true", "false"}
        /\ (ret = "false") <=> (Len(real_roots) = 0 \/ Len(real_roots) > 3)
        /\ Len(real_roots) \in 1..3 => ret = "true"

\* a successful call in which every root was skipped
C2_Witness ==
    /\ pc = "done"
    /\ ret = "true"
    /\ Len(real_roots) \in 1..3
    /\ KeptRoots = {}
    /\ models_ = before

\* C3 as stated: after a failed call the caller's list is empty
C3_FailedCallLeavesEmptyList ==
    (pc = "done" /\ ret = "false") => models_ = << >>

\* C3 amended: a failed call appends nothing, the caller's list is what it
\* was when the call was entered
C3_FailedCallAppendsNothing ==
    (pc = "done" /\ ret = "false") => models_ = before

\* a failed call on a list that already held candidates
C3_Witness ==
    /\ pc = "done"
    /\ ret = "false"
    /\ Len(real_roots) > 3
    /\ before # << >>

\* C4 as stated: after a successful call the list holds between 0 and 3
\* candidates, one per root with |s| > epsilon
C4_ListHoldsOnePerKeptRoot ==
    (pc = "done" /\ ret = "true") =>
        /\ Len(models_) \in 0..3
        /\ Len(models_) = Cardinality(KeptRoots)
        /\ Len(models_) = 0 => KeptRoots = {}

\* C4 amended: a successful call appends between 0 and 3 candidates, one per
\* root with |s| > epsilon and none for the others, and appends none only if
\* every root was skipped
C4_AppendsOnePerKeptRoot ==
    (pc = "done" /\ ret = "true") =>
        /\ Len(models_) - Len(before) \in 0..3
        /\ Len(models_) - Len(before) = Cardinality(KeptRoots)
        /\ SubSeq(models_, 1, Len(before)) = before
        /\ Len(models_) = Len(before) => KeptRoots = {}

\* a root with s exactly 0 was skipped and another one gave a candidate
C4_Witness ==
    /\ pc = "done"
    /\ ret = "true"
    /\ \E j \in 1..Len(real_roots) : ScalarOfRoot(j) = Zero
    /\ Len(models_) - Len(before) = Len(real_roots) - 1
    /\ Len(models_) > Len(before)

\* C5: every candidate in the list has last entry exactly 1
C5_LastEntryIsOne ==
    \A m \in 1..Len(models_) : models_[m][9] = One

\* a candidate whose other entries were really rescaled
C5_Witness ==
    \E m \in 1..Len(models_) : \E j \in 1..8 : models_[m][j][2] # 1

\* C6: every step keeps the entries of the list as a prefix of the new list
C6_AppendOnly ==
    [][/\ Len(models_') >= Len(models_)
       /\ SubSeq(models_', 1, Len(models_)) = models_]_vars

\* a later call has appended to a list that already held candidates
C6_Witness ==
    /\ calls > 1
    /\ pc = "done"
    /\ before # << >>
    /\ Len(models_) > Len(before)

\* C7 as stated: the call reads sample positions 0..6 only, and from the
\* table only columns 0..3 of the rows these entries select
C7_ReadsOnlySampledRows ==
    /\ SampleSize = 7
    /\ sampleReads \subseteq 0..6
    /\ Assembled => sampleReads = 0..6
    /\ \A j \in 1..Len(addrs) : \A d \in 1..4 :
          /\ InTable(addrs[j][d], rows, cols)
          /\ RowOf(addrs[j][d], cols) = sample[j]
          /\ ColOf(addrs[j][d], cols) = d - 1

\* C8: c[0] + c[1] x + c[2] x^2 + c[3] x^3 is the determinant of x * f1 + f2,
\* the solver gets the coefficients in that order, and every candidate in the
\* list is singular.  Both sides of the identity are sums of products of three
\* distinct entries of f1 and f2 (times a power of x), so agreement on every
\* pair of 0/1 vectors with at most three entries set, at four values of x,
\* is agreement on all vectors and all x.
C8_CubicIsDeterminant ==
    /\ pc = "solve" =>
          /\ \A x \in TestLambdas : Cubic(c, x) = Det3(Pencil(x, f1, f2))
          /\ polynomial = c
    /\ \A m \in 1..Len(models_) : Det3(models_[m]) = Zero

\* a proper cubic with three reported roots gave three candidates
C8_Witness ==
    /\ pc = "done"
    /\ polynomial = c
    /\ c[4] # Zero
    /\ Len(real_roots) = 3
    /\ Len(models_) = Len(before) + 3

\* C9 as stated: the decomposed matrix has exactly 7 rows and 9 columns, row
\* j built from the j-th correspondence read
C9_SevenByNine ==
    Assembled =>
        /\ Len(coefficients) = 7
        /\ \A r \in 1..Len(coefficients) :
              /\ Len(coefficients[r]) = 9
              /\ r <= 7 =>
                    coefficients[r] =
                       << pts[r][3] ** pts[r][1], pts[r][3] ** pts[r][2], pts[r][3],
                          pts[r][4] ** pts[r][1], pts[r][4] ** pts[r][2], pts[r][4],
                          pts[r][1], pts[r][2], One >>

\* C10 as stated: the int offset is cols * r without wraparound, and the
\* four values read are columns 0..3 of row r
C10_OffsetIsExactProduct ==
    \A j \in 1..Len(offs) :
        /\ offs[j] = WideMul(cols, sample[j])
        /\ FitsInt(offs[j])
        /\ pts[j] = << Cell(sample[j], 0), Cell(sample[j], 1),
                       Cell(sample[j], 2), Cell(sample[j], 3) >>

====
